---- MODULE Spec2Model ----
(***************************************************************************)
(* Model of the user / stuff / slot record stores of the canister          *)
(* (src/src/User/user.ts, src/src/Stuff/stuff.ts, src/src/Slot/slot.ts).   *)
(*                                                                         *)
(* A JavaScript object is a function from field names to values; an        *)
(* object spread is a sequence of Spread applications, later fields        *)
(* overriding earlier ones.  A StableBTreeMap is a function from keys to   *)
(* records, each of the three a map of its own, as the comment blocks of   *)
(* the three files describe them.  Every exported function is an operator  *)
(* that computes the new contents of the map it writes and the value it    *)
(* returns; the action that calls it records the stores before the call,   *)
(* the arguments and the returned value.                                   *)
(***************************************************************************)
EXTENDS Integers, FiniteSets, Sequences, TLC

\* ------------------------------------------------------------------ bounds
\* number of identifiers uuidv4 hands out in a behaviour
MaxIds == 3
\* number of times the clock advances in a behaviour
MaxTicks == 1

\* divisor of getCurrentDate (user.ts)
TimeScale == 100000

\* ------------------------------------------------------------------ values
\* an id that uuidv4 never generates: a string a caller makes up
BogusId == "no-such-id"
\* the payloads callers send: one of falsy values ("", 0, false) and one of
\* truthy values, differing in every field
UserDetails ==
    { [pseudo |-> "", name |-> ""],
      [pseudo |-> "max", name |-> "Max"] }
StuffDetails ==
    { [description |-> "", image_url |-> ""],
      [description |-> "bike", image_url |-> "bike.png"] }
SlotDetails ==
    { [description |-> "", beginAt |-> 0, endAt |-> 0, available |-> FALSE],
      [description |-> "week", beginAt |-> 100, endAt |-> 200, available |-> TRUE] }

\* the empty object
Empty == [f \in {} |-> 0]

VARIABLES
    usersStorage,   \* user.ts: StableBTreeMap<string, User>
    stuffsStorage,  \* stuff.ts: StableBTreeMap<string, Stuff>
    slotsStorage,   \* slot.ts: StableBTreeMap<string, Slot>
    now,            \* ic.time() of the last call
    issued,         \* the ids uuidv4 has generated: issued[i] is the store the i-th went to
    call,           \* the last call: function, id argument, payload argument
    ret,            \* the value the last call returned
    pre             \* the three stores before the last call

vars == <<usersStorage, stuffsStorage, slotsStorage, now, issued, call, ret, pre>>

\* ------------------------------------------------------------ JS objects
\* { ...a, ...b }
Spread(a, b) ==
    [f \in (DOMAIN a) \cup (DOMAIN b) |-> IF f \in DOMAIN b THEN b[f] ELSE a[f]]

\* --------------------------------------------------------- StableBTreeMap
containsKey(m, k) == k \in DOMAIN m

insert(m, k, v) == [x \in (DOMAIN m) \cup {k} |-> IF x = k THEN v ELSE m[x]]

remove(m, k) == [x \in (DOMAIN m) \ {k} |-> m[x]]

\* ------------------------------------------------------- returned values
\* Opt<T>: Some(v) or None; T | string: Ok(v) or Err(msg, id), the message
\* being the template of the returned string and id the value it interpolates
Some(v) == [tag |-> "Some", val |-> v, msg |-> "", arg |-> BogusId]
None == [tag |-> "None", val |-> Empty, msg |-> "", arg |-> BogusId]
Ok(v) == [tag |-> "Ok", val |-> v, msg |-> "", arg |-> BogusId]
Err(m, id) == [tag |-> "Err", val |-> Empty, msg |-> m, arg |-> id]

\* the stored records; the order of the Vec (by key) is not modelled, and
\* no two records are equal since each carries its key as id
values(m) == {m[k] : k \in DOMAIN m}

get(m, k) == IF containsKey(m, k) THEN Some(m[k]) ELSE None

\* result of a function: the map it writes and the value it returns
Out(m, r) == [store |-> m, ret |-> r]

\* ------------------------------------------------------------------ clock
\* getCurrentDate: new Date(Number(ic.time()) / 100_000), the Date's time
\* value being the integer part of the quotient
getCurrentDate(t) == t \div TimeScale

\* ---------------------------------------------------------------- user.ts
getUsers(us) == values(us)

getUser(us, id) == get(us, id)

checkUser(us, id) == containsKey(us, id)

addUser(us, user, id, t) ==
    LET newUser == Spread(Spread(Spread([id |-> id], user),
                                 [createdAt |-> getCurrentDate(t)]),
                          [updatedAt |-> getCurrentDate(t)])
    IN  Out(insert(us, newUser.id, newUser), Ok(newUser))

updateUser(us, id, user, t) ==
    LET storedUser == get(us, id)
        updatedUser == Spread(Spread(storedUser.val, user),
                              [updatedAt |-> getCurrentDate(t)])
        after == IF storedUser.tag = "Some"
                 THEN insert(us, updatedUser.id, updatedUser)
                 ELSE us
    IN  Out(after, get(after, id))

\* second variant of updateUser: the Result.Err of the missing id is built
\* and dropped, and the function goes on
updateUserV2(us, id, user, t) ==
    LET storedUser == get(us, id).val
        updatedUser == Spread(Spread(Spread([id |-> id], storedUser), user),
                              [updatedAt |-> getCurrentDate(t)])
    IN  Out(insert(us, id, updatedUser), Ok(updatedUser))

removeUser(us, id) == Out(remove(us, id), get(us, id))

\* --------------------------------------------------------------- stuff.ts
getStuffs(st) == values(st)

getStuff(st, id) == get(st, id)

checkStuffId(st, id) == containsKey(st, id)

createStuff(st, stuff, id, t) ==
    LET newStuff == Spread(Spread(Spread([id |-> id], stuff),
                                  [createdAt |-> t]),
                           [updatedAt |-> t])
    IN  Out(insert(st, newStuff.id, newStuff), Ok(newStuff))

\* updateStuff with the two spreads swapped: { ...payload, ...stuff.Some }
updateStuffStoredWins(st, id, payload, t) ==
    LET stuff == get(st, id)
        updatedStuff == Spread(Spread(payload, stuff.val), [updatedAt |-> t])
    IN  IF stuff.tag = "Some"
        THEN Out(insert(st, stuff.val.id, updatedStuff), Ok(updatedStuff))
        ELSE Out(st, Err("Stuff with id=${id} not found", id))

updateStuff(st, id, payload, t) ==
    LET stuff == get(st, id)
        updatedStuff == Spread(Spread(stuff.val, payload), [updatedAt |-> t])
    IN  IF stuff.tag = "Some"
        THEN Out(insert(st, stuff.val.id, updatedStuff), Ok(updatedStuff))
        ELSE Out(st, Err("Stuff with id=${id} not found", id))

\* transferStuffOwnability without the check of the new owner
transferStuffOwnabilityUnchecked(us, st, id, toOwnerId, t) ==
    LET stuff == get(st, id)
        updatedStuff == Spread(Spread(stuff.val, [ownerId |-> toOwnerId]),
                               [updatedAt |-> t])
    IN  IF stuff.tag = "Some"
        THEN Out(insert(st, stuff.val.id, updatedStuff), Ok(updatedStuff))
        ELSE Out(st, Err("Stuff with id=${id} not found", id))

transferStuffOwnability(us, st, id, toOwnerId, t) ==
    LET stuff == get(st, id)
        updatedStuff == Spread(Spread(stuff.val, [ownerId |-> toOwnerId]),
                               [updatedAt |-> t])
    IN  IF stuff.tag = "Some" /\ checkUser(us, toOwnerId)
        THEN Out(insert(st, stuff.val.id, updatedStuff), Ok(updatedStuff))
        ELSE Out(st, Err("Stuff with id=${id} not found", id))

\* deleteStuff that reads the record and does not remove it
deleteStuffKeeps(st, id) == Out(st, get(st, id))

deleteStuff(st, id) == Out(remove(st, id), get(st, id))

\* ---------------------------------------------------------------- slot.ts
getSlots(sl) == values(sl)

getSlot(sl, id) == get(sl, id)

\* addSlot with the owner check inverted as its stuff check is
addSlotOwnerCheckInverted(us, st, sl, payload, id, t) ==
    LET slot == Spread(Spread(Spread([id |-> id], payload),
                              [createdAt |-> t]),
                       [updatedAt |-> t])
    IN  IF checkUser(us, payload.ownerId)
        THEN Out(sl, Err("Can't create slot: no user found matching id=${payload.ownerId}",
                         payload.ownerId))
        ELSE IF checkStuffId(st, payload.stuffId)
        THEN Out(sl, Err("Can't create slot: no stuff matching id=${payload.stuffId}",
                         payload.stuffId))
        ELSE Out(insert(sl, slot.id, slot), Ok(slot))

addSlot(us, st, sl, payload, id, t) ==
    LET slot == Spread(Spread(Spread([id |-> id], payload),
                              [createdAt |-> t]),
                       [updatedAt |-> t])
    IN  IF ~checkUser(us, payload.ownerId)
        THEN Out(sl, Err("Can't create slot: no user found matching id=${payload.ownerId}",
                         payload.ownerId))
        ELSE IF checkStuffId(st, payload.stuffId)
        THEN Out(sl, Err("Can't create slot: no stuff matching id=${payload.stuffId}",
                         payload.stuffId))
        ELSE Out(insert(sl, slot.id, slot), Ok(slot))

\* updateSlot with the stuff check of addSlot (not negated)
updateSlotStuffCheckInverted(us, st, sl, id, payload, t) ==
    LET slot == get(sl, id)
        updatedSlot == Spread(Spread(slot.val, payload), [updatedAt |-> t])
    IN  IF slot.tag = "Some"
        THEN IF ~checkUser(us, payload.ownerId)
             THEN Out(sl, Err("can't update slot: no user matching id=${payload.ownerId}",
                              payload.ownerId))
             ELSE IF checkStuffId(st, payload.stuffId)
             THEN Out(sl, Err("can't update slot: no stuff matching id=${payload.stuffId}",
                              payload.stuffId))
             ELSE Out(insert(sl, id, updatedSlot), Ok(updatedSlot))
        ELSE Out(sl, Err("can't update slot: no slot matching id=${id}", id))

updateSlot(us, st, sl, id, payload, t) ==
    LET slot == get(sl, id)
        updatedSlot == Spread(Spread(slot.val, payload), [updatedAt |-> t])
    IN  IF slot.tag = "Some"
        THEN IF ~checkUser(us, payload.ownerId)
             THEN Out(sl, Err("can't update slot: no user matching id=${payload.ownerId}",
                              payload.ownerId))
             ELSE IF ~checkStuffId(st, payload.stuffId)
             THEN Out(sl, Err("can't update slot: no stuff matching id=${payload.stuffId}",
                              payload.stuffId))
             ELSE Out(insert(sl, id, updatedSlot), Ok(updatedSlot))
        ELSE Out(sl, Err("can't update slot: no slot matching id=${id}", id))

removeSlot(sl, id) == Out(remove(sl, id), get(sl, id))

\* ------------------------------------------------------------------- uuid
\* uuidv4(): an id that was never generated before
\* the i-th id generated
IdAt(i) == "uuid-" \o ToString(i)

\* a generator that hands out the last id again
uuidv4Repeats(log) == IdAt(IF Len(log) = 0 THEN 1 ELSE Len(log))

uuidv4(log) == IdAt(Len(log) + 1)

\* ------------------------------------------------------------------- init
NoCall == [op |-> "none", id |-> BogusId, payload |-> Empty]

Snapshot == [users |-> usersStorage, stuffs |-> stuffsStorage, slots |-> slotsStorage]

Init ==
    /\ usersStorage = Empty
    /\ stuffsStorage = Empty
    /\ slotsStorage = Empty
    /\ now = 0
    /\ issued = << >>
    /\ call = NoCall
    /\ ret = None
    /\ pre = [users |-> Empty, stuffs |-> Empty, slots |-> Empty]

\* ----------------------------------------------------------------- inputs
\* the ids a caller can name for a store: those generated for it so far,
\* stored or removed since, and a made-up one (the id of a record of another
\* store is, for this store, one more id that is not a key)
IdsOf(kind) == {BogusId} \cup {IdAt(i) : i \in {j \in 1 .. Len(issued) : issued[j] = kind}}

UserPayloads == UserDetails

StuffPayloads ==
    {Spread(d, [ownerId |-> o]) : d \in StuffDetails, o \in IdsOf("user")}

SlotPayloads ==
    {Spread(d, [stuffId |-> s, ownerId |-> o]) :
        d \in SlotDetails, s \in IdsOf("stuff"), o \in IdsOf("user")}

Called(op, id, payload) == [op |-> op, id |-> id, payload |-> payload]

\* ---------------------------------------------------------------- actions
\* ic.time() of a call: the time of the previous call or a later one; it is
\* the same for every read within the call
Times ==
    {now} \cup (IF now < MaxTicks * (TimeScale + TimeScale \div 2)
                THEN {now + TimeScale + TimeScale \div 2}
                ELSE {})

CallAddUser ==
    /\ Len(issued) < MaxIds
    /\ \E t \in Times, user \in UserPayloads :
         LET out == addUser(usersStorage, user, uuidv4(issued), t)
         IN  /\ usersStorage' = out.store
             /\ ret' = out.ret
             /\ call' = Called("addUser", BogusId, user)
             /\ now' = t
    /\ issued' = Append(issued, "user")
    /\ pre' = Snapshot
    /\ UNCHANGED <<stuffsStorage, slotsStorage>>

CallUpdateUser ==
    /\ \E t \in Times, id \in IdsOf("user"), user \in UserPayloads :
         LET out == updateUser(usersStorage, id, user, t)
         IN  /\ usersStorage' = out.store
             /\ ret' = out.ret
             /\ call' = Called("updateUser", id, user)
             /\ now' = t
    /\ pre' = Snapshot
    /\ UNCHANGED <<stuffsStorage, slotsStorage, issued>>

CallUpdateUserV2 ==
    /\ \E t \in Times, id \in IdsOf("user"), user \in UserPayloads :
         LET out == updateUserV2(usersStorage, id, user, t)
         IN  /\ usersStorage' = out.store
             /\ ret' = out.ret
             /\ call' = Called("updateUserV2", id, user)
             /\ now' = t
    /\ pre' = Snapshot
    /\ UNCHANGED <<stuffsStorage, slotsStorage, issued>>

\* removeUser that also removes the stuffs and the slots of the removed user
CallRemoveUserCascading ==
    /\ \E t \in Times, id \in IdsOf("user") :
         LET out == removeUser(usersStorage, id)
         IN  /\ usersStorage' = out.store
             /\ stuffsStorage' = [k \in {x \in DOMAIN stuffsStorage :
                                            stuffsStorage[x].ownerId # id}
                                     |-> stuffsStorage[k]]
             /\ slotsStorage' = [k \in {x \in DOMAIN slotsStorage :
                                           slotsStorage[x].ownerId # id}
                                    |-> slotsStorage[k]]
             /\ ret' = out.ret
             /\ call' = Called("removeUser", id, Empty)
             /\ now' = t
    /\ pre' = Snapshot
    /\ UNCHANGED issued

CallRemoveUser ==
    /\ \E t \in Times, id \in IdsOf("user") :
         LET out == removeUser(usersStorage, id)
         IN  /\ usersStorage' = out.store
             /\ ret' = out.ret
             /\ call' = Called("removeUser", id, Empty)
             /\ now' = t
    /\ pre' = Snapshot
    /\ UNCHANGED <<stuffsStorage, slotsStorage, issued>>

CallCreateStuff ==
    /\ Len(issued) < MaxIds
    /\ \E t \in Times, stuff \in StuffPayloads :
         LET out == createStuff(stuffsStorage, stuff, uuidv4(issued), t)
         IN  /\ stuffsStorage' = out.store
             /\ ret' = out.ret
             /\ call' = Called("createStuff", BogusId, stuff)
             /\ now' = t
    /\ issued' = Append(issued, "stuff")
    /\ pre' = Snapshot
    /\ UNCHANGED <<usersStorage, slotsStorage>>

CallUpdateStuff ==
    /\ \E t \in Times, id \in IdsOf("stuff"), payload \in StuffPayloads :
         LET out == updateStuff(stuffsStorage, id, payload, t)
         IN  /\ stuffsStorage' = out.store
             /\ ret' = out.ret
             /\ call' = Called("updateStuff", id, payload)
             /\ now' = t
    /\ pre' = Snapshot
    /\ UNCHANGED <<usersStorage, slotsStorage, issued>>

CallTransferStuffOwnability ==
    /\ \E t \in Times, id \in IdsOf("stuff"), toOwnerId \in IdsOf("user") :
         LET out == transferStuffOwnability(usersStorage, stuffsStorage, id, toOwnerId, t)
         IN  /\ stuffsStorage' = out.store
             /\ ret' = out.ret
             /\ call' = Called("transferStuffOwnability", id, [toOwnerId |-> toOwnerId])
             /\ now' = t
    /\ pre' = Snapshot
    /\ UNCHANGED <<usersStorage, slotsStorage, issued>>

CallDeleteStuff ==
    /\ \E t \in Times, id \in IdsOf("stuff") :
         LET out == deleteStuff(stuffsStorage, id)
         IN  /\ stuffsStorage' = out.store
             /\ ret' = out.ret
             /\ call' = Called("deleteStuff", id, Empty)
             /\ now' = t
    /\ pre' = Snapshot
    /\ UNCHANGED <<usersStorage, slotsStorage, issued>>

\* uuidv4() is called only when both checks pass: a call that fails
\* generates no id
CallAddSlot ==
    /\ \E t \in Times, payload \in SlotPayloads :
         LET out == addSlot(usersStorage, stuffsStorage, slotsStorage, payload,
                            uuidv4(issued), t)
         IN  /\ out.ret.tag = "Ok" => Len(issued) < MaxIds
             /\ slotsStorage' = out.store
             /\ ret' = out.ret
             /\ call' = Called("addSlot", BogusId, payload)
             /\ now' = t
             /\ issued' = IF out.ret.tag = "Ok" THEN Append(issued, "slot") ELSE issued
    /\ pre' = Snapshot
    /\ UNCHANGED <<usersStorage, stuffsStorage>>

CallUpdateSlot ==
    /\ \E t \in Times, id \in IdsOf("slot"), payload \in SlotPayloads :
         LET out == updateSlot(usersStorage, stuffsStorage, slotsStorage, id, payload, t)
         IN  /\ slotsStorage' = out.store
             /\ ret' = out.ret
             /\ call' = Called("updateSlot", id, payload)
             /\ now' = t
    /\ pre' = Snapshot
    /\ UNCHANGED <<usersStorage, stuffsStorage, issued>>

CallRemoveSlot ==
    /\ \E t \in Times, id \in IdsOf("slot") :
         LET out == removeSlot(slotsStorage, id)
         IN  /\ slotsStorage' = out.store
             /\ ret' = out.ret
             /\ call' = Called("removeSlot", id, Empty)
             /\ now' = t
    /\ pre' = Snapshot
    /\ UNCHANGED <<usersStorage, stuffsStorage, issued>>

Next ==
    \/ CallAddUser
    \/ CallUpdateUser
    \/ CallRemoveUser
    \/ CallCreateStuff
    \/ CallUpdateStuff
    \/ CallTransferStuffOwnability
    \/ CallDeleteStuff
    \/ CallAddSlot
    \/ CallUpdateSlot
    \/ CallRemoveSlot

\* the program with the first variant of user.ts
Spec == Init /\ [][Next]_vars

\* the second variant of user.ts (getUsers, checkUser, getUser, addUser,
\* updateUser) on its own
NextV2 ==
    \/ CallAddUser
    \/ CallUpdateUserV2

SpecV2 == Init /\ [][NextV2]_vars

\* ================================================================ claims
\* The error taxonomy of the specification, read off the returned message:
\* NotFound (the id is absent), InvalidOwner (ownerId does not resolve),
\* InvalidItem (stuffId does not resolve).
ErrorKind(r) ==
    IF r.tag # "Err" THEN "none"
    ELSE IF r.msg \in {"Stuff with id=${id} not found",
                       "can't update slot: no slot matching id=${id}"}
    THEN "NotFound"
    ELSE IF r.msg \in {"Can't create slot: no user found matching id=${payload.ownerId}",
                       "can't update slot: no user matching id=${payload.ownerId}"}
    THEN "InvalidOwner"
    ELSE IF r.msg \in {"Can't create slot: no stuff matching id=${payload.stuffId}",
                       "can't update slot: no stuff matching id=${payload.stuffId}"}
    THEN "InvalidItem"
    ELSE "other"

Did(op) == call.op = op

StoresUnchanged == Snapshot = pre

\* the record new carries every field of payload with the payload's value
CarriesPayload(new, payload) ==
    \A f \in DOMAIN payload : f \in DOMAIN new /\ new[f] = payload[f]

\* after differs from before by exactly one new key k
OneMore(before, after, k) ==
    /\ k \notin DOMAIN before
    /\ DOMAIN after = (DOMAIN before) \cup {k}
    /\ \A x \in DOMAIN before : after[x] = before[x]

\* after differs from before only in the record stored under k
OnlyChanged(before, after, k) ==
    /\ DOMAIN after = DOMAIN before
    /\ \A x \in (DOMAIN before) \ {k} : after[x] = before[x]

\* ---------------------------------------------------------------------- C1
\* C1 (as claimed): addSlot with a stored ownerId and a stuffId that is not a
\* key of stuffsStorage fails with InvalidItem and leaves slotsStorage as it was.
C1_AddSlotUnknownStuffFails ==
    ( /\ Did("addSlot")
      /\ checkUser(pre.users, call.payload.ownerId)
      /\ ~checkStuffId(pre.stuffs, call.payload.stuffId) )
    => /\ ErrorKind(ret) = "InvalidItem"
       /\ slotsStorage = pre.slots

\* ---------------------------------------------------------------------- C2
\* C2 (as claimed): addSlot whose ownerId and stuffId are both stored succeeds,
\* stores exactly one new slot, and getSlot of the returned id yields a slot
\* whose description, stuffId, ownerId, beginAt, endAt and available are the
\* payload's.
C2_AddSlotValidRefsSucceeds ==
    ( /\ Did("addSlot")
      /\ checkUser(pre.users, call.payload.ownerId)
      /\ checkStuffId(pre.stuffs, call.payload.stuffId) )
    => /\ ret.tag = "Ok"
       /\ OneMore(pre.slots, slotsStorage, ret.val.id)
       /\ getSlot(slotsStorage, ret.val.id).tag = "Some"
       /\ CarriesPayload(getSlot(slotsStorage, ret.val.id).val, call.payload)

\* ---------------------------------------------------------------------- C3
\* C3: addSlot with an ownerId that is not a key of usersStorage fails with
\* InvalidOwner whatever the stuffId is, and leaves the three stores unchanged;
\* slotsStorage has as many records as before.
C3_AddSlotUnknownOwner ==
    ( /\ Did("addSlot")
      /\ ~checkUser(pre.users, call.payload.ownerId) )
    => /\ ErrorKind(ret) = "InvalidOwner"
       /\ StoresUnchanged
       /\ Cardinality(DOMAIN slotsStorage) = Cardinality(DOMAIN pre.slots)

\* addSlot was called with an ownerId that is not stored and the id of a
\* stored stuff, while a slot was stored
C3_Witness ==
    /\ Did("addSlot")
    /\ ~checkUser(pre.users, call.payload.ownerId)
    /\ checkStuffId(pre.stuffs, call.payload.stuffId)
    /\ DOMAIN pre.slots # {}
    /\ ret.tag = "Err"

\* ---------------------------------------------------------------------- C4
\* C4: transferStuffOwnability(id, toOwnerId) succeeds if and only if id is a
\* key of stuffsStorage and toOwnerId a key of usersStorage; when it fails
\* stuffsStorage is unchanged; when it succeeds the stored stuff differs from
\* the previous one only in ownerId (= toOwnerId) and updatedAt, and no other
\* stuff changes.
C4_Transfer ==
    Did("transferStuffOwnability") =>
        LET id == call.id
            to == call.payload.toOwnerId
        IN  /\ (ret.tag = "Ok") <=> (checkStuffId(pre.stuffs, id) /\ checkUser(pre.users, to))
            /\ ret.tag \in {"Ok", "Err"}
            /\ ret.tag = "Err" => StoresUnchanged
            /\ ret.tag = "Ok" =>
                 /\ OnlyChanged(pre.stuffs, stuffsStorage, id)
                 /\ DOMAIN stuffsStorage[id] = DOMAIN pre.stuffs[id]
                 /\ \A f \in (DOMAIN pre.stuffs[id]) \ {"ownerId", "updatedAt"} :
                        stuffsStorage[id][f] = pre.stuffs[id][f]
                 /\ stuffsStorage[id].ownerId = to
                 /\ ret.val = stuffsStorage[id]
                 /\ usersStorage = pre.users /\ slotsStorage = pre.slots

\* a transfer of a stored stuff to a user that is not stored failed, the
\* stuff keeping the owner it had, another id than the one asked for
C4_Witness ==
    /\ Did("transferStuffOwnability")
    /\ checkStuffId(pre.stuffs, call.id)
    /\ ~checkUser(pre.users, call.payload.toOwnerId)
    /\ ret.tag = "Err"
    /\ stuffsStorage[call.id].ownerId # call.payload.toOwnerId
    /\ checkUser(usersStorage, stuffsStorage[call.id].ownerId)

AbsentUpdateIsNoOp(op, before, after) ==
    (Did(op) /\ ~containsKey(before, call.id))
    => /\ after = before
       /\ ret = None \/ ErrorKind(ret) = "NotFound"

C6_UpdateAbsentIdCreatesNothing ==
    /\ AbsentUpdateIsNoOp("updateUser", pre.users, usersStorage)
    /\ AbsentUpdateIsNoOp("updateUserV2", pre.users, usersStorage)
    /\ AbsentUpdateIsNoOp("updateStuff", pre.stuffs, stuffsStorage)
    /\ AbsentUpdateIsNoOp("updateSlot", pre.slots, slotsStorage)

\* ---------------------------------------------------------------------- C7
\* C7: a successful update(id, payload) of a stored record, in each of the
\* three stores, keeps the record under the same key with the same id and
\* createdAt and with every field that is not in the payload unchanged, sets
\* every field of the payload to the payload's value (falsy values included),
\* and sets updatedAt to a value >= the previous one; no other record of the
\* store changes.
UpdateKeeps(before, after, id, payload) ==
    /\ containsKey(before, id)
    /\ OnlyChanged(before, after, id)
    /\ after[id].id = id
    /\ after[id].id = before[id].id
    /\ after[id].createdAt = before[id].createdAt
    /\ \A f \in (DOMAIN before[id]) \ ((DOMAIN payload) \cup {"updatedAt"}) :
           f \in DOMAIN after[id] /\ after[id][f] = before[id][f]
    /\ CarriesPayload(after[id], payload)
    /\ after[id].updatedAt >= before[id].updatedAt

C7_UpdateMerges ==
    /\ (Did("updateUser") /\ containsKey(pre.users, call.id))
         => /\ ret.tag = "Some"
            /\ UpdateKeeps(pre.users, usersStorage, call.id, call.payload)
            /\ ret.val = usersStorage[call.id]
    /\ (Did("updateStuff") /\ containsKey(pre.stuffs, call.id))
         => /\ ret.tag = "Ok"
            /\ UpdateKeeps(pre.stuffs, stuffsStorage, call.id, call.payload)
            /\ ret.val = stuffsStorage[call.id]
    /\ (Did("updateSlot") /\ ret.tag = "Ok")
         => /\ UpdateKeeps(pre.slots, slotsStorage, call.id, call.payload)
            /\ ret.val = slotsStorage[call.id]

\* a stored stuff was updated at a later time than its last update, with a
\* payload whose description is the empty string, replacing a non-empty one
C7_Witness ==
    /\ Did("updateStuff")
    /\ containsKey(pre.stuffs, call.id)
    /\ ret.tag = "Ok"
    /\ call.payload.description = ""
    /\ pre.stuffs[call.id].description # ""
    /\ stuffsStorage[call.id].updatedAt > pre.stuffs[call.id].updatedAt

\* ---------------------------------------------------------------------- C8
\* C8: in each of the three stores, delete(id) of a stored id returns the
\* stored record and removes exactly that key, after which get(id) is empty;
\* delete(id) of an absent id (a second delete of the same id included)
\* returns an empty result, no error, and leaves the store unchanged.
Deleted(before, after, id) ==
    IF containsKey(before, id)
    THEN /\ ret.tag = "Some"
         /\ ret.val = before[id]
         /\ DOMAIN after = (DOMAIN before) \ {id}
         /\ \A x \in DOMAIN after : after[x] = before[x]
         /\ get(after, id) = None
    ELSE /\ ret = None
         /\ after = before

C8_Delete ==
    /\ Did("removeUser") => Deleted(pre.users, usersStorage, call.id)
    /\ Did("deleteStuff") => Deleted(pre.stuffs, stuffsStorage, call.id)
    /\ Did("removeSlot") => Deleted(pre.slots, slotsStorage, call.id)

\* deleteStuff was called again with the id of a stuff that was created and
\* deleted before, while another stuff was stored
C8_Witness ==
    /\ Did("deleteStuff")
    /\ call.id # BogusId
    /\ ~containsKey(pre.stuffs, call.id)
    /\ DOMAIN pre.stuffs # {}
    /\ ret = None

\* ---------------------------------------------------------------------- C9
\* C9: addUser and createStuff succeed for every payload (no check of pseudo
\* uniqueness or of ownerId existence), give the record an id that was not a
\* key of the store, so that no stored record is overwritten and the store
\* grows by exactly one record, and get of the returned id yields a record
\* whose payload fields are the input and whose createdAt equals its updatedAt.
Created(before, after, payload, stored) ==
    /\ ret.tag = "Ok"
    /\ OneMore(before, after, ret.val.id)
    /\ stored.tag = "Some"
    /\ stored.val = ret.val
    /\ CarriesPayload(stored.val, payload)
    /\ stored.val.createdAt = stored.val.updatedAt

C9_Create ==
    /\ Did("addUser")
         => Created(pre.users, usersStorage, call.payload,
                    getUser(usersStorage, ret.val.id))
    /\ Did("createStuff")
         => Created(pre.stuffs, stuffsStorage, call.payload,
                    getStuff(stuffsStorage, ret.val.id))

\* createStuff was called with an ownerId that is not a stored user, a stuff
\* being stored already
C9_Witness ==
    /\ Did("createStuff")
    /\ ~checkUser(pre.users, call.payload.ownerId)
    /\ DOMAIN pre.stuffs # {}
    /\ ret.tag = "Ok"

\* --------------------------------------------------------------------- C10
\* C10 (as claimed): transferStuffOwnability returns NotFound when the stuff
\* id is absent from stuffsStorage, and InvalidOwner when the stuff is stored
\* and toOwnerId is not a key of usersStorage.
C10_TransferErrorKinds ==
    Did("transferStuffOwnability") =>
        /\ ~checkStuffId(pre.stuffs, call.id) => ErrorKind(ret) = "NotFound"
        /\ (checkStuffId(pre.stuffs, call.id) /\ ~checkUser(pre.users, call.payload.toOwnerId))
             => ErrorKind(ret) = "InvalidOwner"

\* --------------------------------------------------------------------- C11
\* C11: deletion does not cascade.  removeUser changes only usersStorage and
\* deleteStuff only stuffsStorage: every stuff and slot whose ownerId is the
\* removed user, and every slot whose stuffId is the deleted stuff, stays
\* stored, unchanged, and is still returned by get and by the list function.
StillStored(before, after, k, one, all) ==
    /\ containsKey(after, k)
    /\ after[k] = before[k]
    /\ one = Some(before[k])
    /\ before[k] \in all

C11_NoCascade ==
    /\ Did("removeUser") =>
         /\ stuffsStorage = pre.stuffs
         /\ slotsStorage = pre.slots
         /\ \A k \in DOMAIN pre.stuffs :
              pre.stuffs[k].ownerId = call.id
              => StillStored(pre.stuffs, stuffsStorage, k,
                             getStuff(stuffsStorage, k), getStuffs(stuffsStorage))
         /\ \A k \in DOMAIN pre.slots :
              pre.slots[k].ownerId = call.id
              => StillStored(pre.slots, slotsStorage, k,
                             getSlot(slotsStorage, k), getSlots(slotsStorage))
    /\ Did("deleteStuff") =>
         /\ usersStorage = pre.users
         /\ slotsStorage = pre.slots
         /\ \A k \in DOMAIN pre.slots :
              pre.slots[k].stuffId = call.id
              => StillStored(pre.slots, slotsStorage, k,
                             getSlot(slotsStorage, k), getSlots(slotsStorage))

\* a stored user was removed while a stored stuff and a stored slot named it
\* as owner: both are still stored, their ownerId naming no user
C11_Witness ==
    /\ Did("removeUser")
    /\ ret.tag = "Some"
    /\ ~checkUser(usersStorage, call.id)
    /\ \E k \in DOMAIN stuffsStorage : stuffsStorage[k].ownerId = call.id
    /\ \E k \in DOMAIN slotsStorage : slotsStorage[k].ownerId = call.id

====
